---- MODULE Spec2Model ----
(***************************************************************************)
(* A model of src/utilities_quadratic.py: the solver InterDivConstraint    *)
(* (its constructor's regime indicators, _min_objective, iterate, find_ξ). *)
(*                                                                         *)
(* Greek names of the source are spelled out: ξ is xi, μ is mu, λ is       *)
(* lambda, v_μ is v_mu, find_ξ is find_xi.  An attribute or local that is  *)
(* None or not yet bound is the empty sequence <<>>; a scalar that is set  *)
(* is the one-element sequence <<x>>.                                      *)
(*                                                                         *)
(* Numbers.  Values of the objective (model.fun, v, μ, error, tol) are     *)
(* integers in units of 1e-8, so that a change in v can be below, equal to *)
(* or above the default tolerance 1e-8.  ξ and the bisection bounds are    *)
(* binary floating-point numbers with SigBits significant bits, held as    *)
(* integers in units of 2^-FracBits; a sum that is not representable is    *)
(* rounded to the nearest representable number, ties to even, as binary64  *)
(* rounds it (with 53 bits).  What scipy's minimize returns and what the   *)
(* post-convergence derivations compute from the data (RE) are responses   *)
(* of the environment, drawn from small sets.                              *)
(***************************************************************************)
EXTENDS Integers, Sequences, FiniteSets, TLC

VARIABLES inst, inst2, fx, env, data

vars == <<inst, inst2, fx, env, data>>

\* ------------------------------------------------------------------ bounds
MaxFun == 2
MaxCount == 2
MaxRE == 3
MaxIter == 7
SigBits == 5
FracBits == 3
MaxT == 4
MaxVal == 2

\* ------------------------------------------------------- program constants
n_f == 4
n_states == 3
ErrInit == 100000000
TolDefault == 1
FindTolNum == 1
FindTolDen == 10000000
XiRefInt == 100
XiStartInt == 1

\* ----------------------------------------------------------------- helpers
RECURSIVE Pow2(_)
Pow2(n) == IF n = 0 THEN 1 ELSE 2 * Pow2(n - 1)

Abs(a) == IF a < 0 THEN -a ELSE a

Max(a, b) == IF a < b THEN b ELSE a

Zeros(n) == [j \in 1..n |-> 0]

Ones(n) == [j \in 1..n |-> 1]

Methods == <<"L-BFGS-B", "BFGS", "CG">>

\* What one call of scipy's minimize may answer: model.success, model.fun and
\* model.x.  model.fun is the objective at model.x, so x decides the answer:
\* the points XAt(a) are points at which the objective is a.
XAt(a) == [j \in 1..(n_f + 1) |-> a + j]

Outcomes == { [success |-> s, fun |-> a, x |-> XAt(a)] :
                s \in BOOLEAN, a \in 0..MaxFun }

REVals == 1..MaxRE

\* ξ in units of 2^-FracBits.
XiUnit == Pow2(FracBits)

XiRef == XiRefInt * XiUnit

XiStart == XiStartInt * XiUnit

XiArgs == {XiStart, XiRef}

TolArgs == {TolDefault, ErrInit}

\* No call of find_ξ has been made.
NoFind == [pc |-> "none"]

FindFinished(f) == f.pc \in {"none", "returned", "raised"}

\* ------------------------------------------------------------ the instance
\* __init__, lines 53-65: the placeholders and the tolerance; ξ and lower are
\* attributes only once iterate has set them.
NewInstance(tol) ==
    [g |-> <<>>, state |-> <<>>, v |-> <<>>, mu |-> <<>>, tol |-> tol,
     xi |-> <<>>, lower |-> <<>>,
     pc |-> "idle", error |-> <<>>, count |-> <<>>,
     v_mu |-> <<>>, lambda_1 |-> <<>>, lambda_2 |-> <<>>, k |-> <<>>,
     method |-> <<>>, model |-> <<>>, attempts |-> <<>>, warned |-> FALSE,
     result |-> <<>>]

\* The attributes of the solver that a call can read or write.
Attrs(i) == [g |-> i.g, state |-> i.state, v |-> i.v, mu |-> i.mu,
             tol |-> i.tol, xi |-> i.xi, lower |-> i.lower]

Finished(i) == i.pc \in {"idle", "returned", "raised"}

\* ------------------------------------------------------------------ iterate
IterateEnter_StoreFirst(i, xi, lower) ==
    LET fresh == [i EXCEPT !.error = <<>>, !.count = <<>>, !.v_mu = <<>>,
                           !.lambda_1 = <<>>, !.lambda_2 = <<>>, !.k = <<>>,
                           !.method = <<>>, !.model = <<>>, !.attempts = <<>>,
                           !.warned = FALSE, !.result = <<>>,
                           !.xi = <<xi>>, !.lower = <<lower>>]
    IN IF i.g = <<>>
       THEN [fresh EXCEPT !.pc = "raised"]
       ELSE [fresh EXCEPT !.error = <<ErrInit>>, !.count = <<0>>,
                          !.pc = "while"]

\* iterate, lines 98-114: the check of g comes first; then ξ and the mode are
\* stored and the loop's error and count are initialised.  The locals of the
\* previous call are gone.
IterateEnter(i, xi, lower) ==
    LET fresh == [i EXCEPT !.error = <<>>, !.count = <<>>, !.v_mu = <<>>,
                           !.lambda_1 = <<>>, !.lambda_2 = <<>>, !.k = <<>>,
                           !.method = <<>>, !.model = <<>>, !.attempts = <<>>,
                           !.warned = FALSE, !.result = <<>>]
    IN IF i.g = <<>>
       THEN [fresh EXCEPT !.pc = "raised"]
       ELSE [fresh EXCEPT !.xi = <<xi>>, !.lower = <<lower>>,
                          !.error = <<ErrInit>>, !.count = <<0>>,
                          !.pc = "while"]

\* The loop's condition, line 116.
LoopCondition(error, tol) == error > tol

LoopTest_WarmStart(i) ==
    IF LoopCondition(i.error[1], i.tol)
    THEN IF i.count[1] = 0
         THEN [i EXCEPT !.v = IF i.v = <<>> THEN Zeros(n_states) ELSE i.v,
                        !.v_mu = Zeros(n_states),
                        !.lambda_1 = Zeros(n_states * n_f),
                        !.lambda_2 = Zeros(n_states),
                        !.k = <<1>>, !.pc = "for"]
         ELSE [i EXCEPT !.k = <<1>>, !.pc = "for"]
    ELSE [i EXCEPT !.pc = "derive"]

\* Lines 116-124: the test of the while loop and, in the first pass, the
\* initial guess and the zeroed placeholders.
LoopTest(i) ==
    IF LoopCondition(i.error[1], i.tol)
    THEN IF i.count[1] = 0
         THEN [i EXCEPT !.v = Zeros(n_states), !.v_mu = Zeros(n_states),
                        !.lambda_1 = Zeros(n_states * n_f),
                        !.lambda_2 = Zeros(n_states),
                        !.k = <<1>>, !.pc = "for"]
         ELSE [i EXCEPT !.k = <<1>>, !.pc = "for"]
    ELSE [i EXCEPT !.pc = "derive"]

\* Lines 125-127 and 80: the for loop over the states; state k becomes the
\* active state and _min_objective starts with its first method.
ForState(i) ==
    IF i.k[1] <= n_states
    THEN [i EXCEPT !.state = <<i.k[1]>>, !.method = <<1>>, !.model = <<>>,
                   !.attempts = <<>>, !.warned = FALSE, !.pc = "minimize"]
    ELSE [i EXCEPT !.k = <<>>, !.pc = "update"]

\* What minimize is called with, lines 81-85.
MinimizeCall(i) == [method |-> Methods[i.method[1]], x0 |-> Ones(n_f + 1),
                    tol |-> i.tol]

NextAttempt_Always(success, m) == m < Len(Methods)

\* Whether the loop over the methods goes on after an attempt, lines 80, 86-87.
NextAttempt(success, m) == ~success /\ m < Len(Methods)

\* _min_objective, lines 80-87: one attempt; out is what minimize answers.
Minimize(i, out) ==
    LET tried == [i EXCEPT !.model = <<out>>,
                           !.attempts = Append(i.attempts, MinimizeCall(i))]
    IN IF NextAttempt(out.success, i.method[1])
       THEN [tried EXCEPT !.method = <<i.method[1] + 1>>]
       ELSE [tried EXCEPT !.pc = "min_done"]

\* _min_objective, lines 92-96: what it returns from the model it holds.
MinObjectiveValue(model) ==
    [v_mu |-> -model.fun,
     lambda_1 |-> SubSeq(model.x, 1, n_f),
     lambda_2 |-> model.x[n_f + 1]]

\* Lines 88-96 and the assignment of line 127: the warning when the last
\* attempt failed too, and the returned triple written into the slots of the
\* active state.
MinObjectiveReturn(i) ==
    LET model == i.model[1]
        r == MinObjectiveValue(model)
        s == i.state[1]
    IN [i EXCEPT !.warned = (model.success = FALSE),
                 !.v_mu[s] = r.v_mu,
                 !.lambda_1 = [j \in 1..(n_states * n_f) |->
                                 IF (s - 1) * n_f < j /\ j <= s * n_f
                                 THEN r.lambda_1[j - (s - 1) * n_f]
                                 ELSE i.lambda_1[j]],
                 !.lambda_2[s] = r.lambda_2,
                 !.method = <<>>, !.model = <<>>, !.attempts = <<>>,
                 !.k = <<i.k[1] + 1>>, !.pc = "for"]

RECURSIVE MaxAbsDiff(_, _, _)
MaxAbsDiff(a, b, n) ==
    IF n = 0 THEN 0 ELSE Max(Abs(a[n] - b[n]), MaxAbsDiff(a, b, n - 1))

NewV_Raw(v_mu) == v_mu

\* Lines 130-131: μ and the new v from the increments of this pass.
NewMu(v_mu) == v_mu[1]

NewV(v_mu) == [j \in 1..n_states |-> v_mu[j] - v_mu[1]]

\* Lines 129-134: the update that ends one pass of the while loop.
Update(i) ==
    LET v_old == i.v
        v_new == NewV(i.v_mu)
    IN [i EXCEPT !.mu = <<NewMu(i.v_mu)>>, !.v = v_new,
                 !.error = <<MaxAbsDiff(v_new, v_old, n_states)>>,
                 !.count = <<i.count[1] + 1>>, !.pc = "while"]

\* Lines 137-218: the derivations and the returned mapping.  re is the RE the
\* derivations compute; the other derived entries are functions of the same
\* inputs.  When the loop never ran, λ_1 is not bound (and v may be None):
\* line 138 raises.  The call's locals end with the call.
Derive(i, re) ==
    LET gone == [i EXCEPT !.error = <<>>, !.count = <<>>, !.v_mu = <<>>,
                          !.lambda_1 = <<>>, !.lambda_2 = <<>>]
    IN IF i.lambda_1 = <<>>
       THEN [gone EXCEPT !.pc = "raised"]
       ELSE [gone EXCEPT !.result = <<[lambda_1 |-> i.lambda_1,
                                       lambda_2 |-> i.lambda_2,
                                       count |-> i.count[1], xi |-> i.xi[1],
                                       mu |-> i.mu[1], v |-> i.v, RE |-> re]>>,
                         !.pc = "returned"]

\* _min_objective as a whole (lines 76-96, called at line 127): the attempts
\* are answered by outs in turn, until the loop over the methods ends.
RECURSIVE MinObjectiveRun(_, _)
MinObjectiveRun(i, outs) ==
    IF i.pc = "minimize" /\ outs # <<>>
    THEN MinObjectiveRun(Minimize(i, Head(outs)), Tail(outs))
    ELSE IF i.pc = "min_done" THEN MinObjectiveReturn(i) ELSE i

\* The answers of n attempts of which the last one answers last.  An attempt
\* that fails and is followed by another leaves nothing behind (line 81
\* overwrites model), so one failed answer stands for all of them.
Attempts(n, last) ==
    [j \in 1..n |-> IF j < n
                    THEN [success |-> FALSE, fun |-> 0, x |-> XAt(0)]
                    ELSE last]

\* The runs of the loop over the methods: it ends with the first success, or
\* with the last method.
SolveRuns ==
    { r \in [n : 1..Len(Methods), last : Outcomes] :
        r.last.success \/ r.n = Len(Methods) }

\* ------------------------------------------------------------------ actions
\* The specification Spec: the caller sets g and calls iterate; a per-state
\* solve is one step.  SpecSolver takes the steps of _min_objective one by one.
Rest == <<inst2, fx, env, data>>

\* The caller sets the moment vector g, or takes it away.
SetG ==
    /\ Finished(inst)
    /\ fx = NoFind
    /\ \E g \in {<<>>, <<"g">>} :
         /\ g # inst.g
         /\ inst' = [inst EXCEPT !.g = g]
    /\ UNCHANGED Rest

IterateCall ==
    /\ Finished(inst)
    /\ fx = NoFind
    /\ \E xi \in XiArgs, lower \in BOOLEAN :
         inst' = IterateEnter(inst, xi, lower)
    /\ UNCHANGED Rest

IterateLoopTest ==
    /\ inst.pc = "while"
    /\ inst' = LoopTest(inst)
    /\ UNCHANGED Rest

IterateSolve ==
    /\ inst.pc = "for"
    /\ inst.k[1] <= n_states
    /\ \E r \in SolveRuns :
         inst' = MinObjectiveRun(ForState(inst), Attempts(r.n, r.last))
    /\ UNCHANGED Rest

IterateForEnd ==
    /\ inst.pc = "for"
    /\ inst.k[1] > n_states
    /\ inst' = ForState(inst)
    /\ UNCHANGED Rest

IterateUpdate ==
    /\ inst.pc = "update"
    /\ inst.count[1] < MaxCount
    /\ inst' = Update(inst)
    /\ UNCHANGED Rest

IterateDerive ==
    /\ inst.pc = "derive"
    /\ \E re \in REVals : inst' = Derive(inst, re)
    /\ UNCHANGED Rest

Init ==
    /\ \E tol \in TolArgs : inst = NewInstance(tol)
    /\ inst2 = NewInstance(TolDefault)
    /\ fx = NoFind
    /\ env = <<>>
    /\ data = <<>>

Next ==
    \/ SetG
    \/ IterateCall
    \/ IterateLoopTest
    \/ IterateSolve
    \/ IterateForEnd
    \/ IterateUpdate
    \/ IterateDerive

Spec == Init /\ [][Next]_vars

\* --------------------------------------------------------------- find_ξ
\* The float nearest to n (in units of 2^-FracBits), ties to even: n keeps
\* its SigBits leading bits.
RECURSIVE RoundAt(_, _)
RoundAt(n, step) ==
    IF n < Pow2(SigBits) * step
    THEN LET q == n \div step
             r == n % step
         IN IF 2 * r < step THEN q * step
            ELSE IF 2 * r > step THEN (q + 1) * step
            ELSE IF q % 2 = 0 THEN q * step ELSE (q + 1) * step
    ELSE RoundAt(n, 2 * step)

RoundSig(n) == RoundAt(n, 1)

\* n/2., which is exact unless it falls below the smallest unit.
Half(n) ==
    IF n % 2 = 0 THEN n \div 2
    ELSE IF (n \div 2) % 2 = 0 THEN n \div 2 ELSE (n \div 2) + 1

\* Lines 249 and 252: (a + b)/2. in floating point.
Mid(a, b) == Half(RoundSig(a + b))

ErrNum_Flipped(RE, min_RE, x) == x.num * min_RE - RE * x.den

\* Line 243, error = RE/min_RE - x_min_RE, times min_RE * x.den (min_RE > 0).
ErrNum(RE, min_RE, x) == RE * x.den - x.num * min_RE

\* Line 244, np.abs(error) < tol, with tol = FindTolNum/FindTolDen.
Within(RE, min_RE, x) ==
    Abs(ErrNum(RE, min_RE, x)) * FindTolDen < FindTolNum * min_RE * x.den

\* The targets x_min_RE and the caps max_iter the caller passes.
XTargets == {[num |-> 1, den |-> 2], [num |-> 3, den |-> 2]}

IterArgs == {0, 1, 2, MaxIter}

\* iterate as a whole, lines 98-218, with a solver that answers funs[state]
\* for each state at its first method in every pass.
RECURSIVE IterateSteps(_, _, _)
IterateSteps(i, funs, re) ==
    IF i.pc = "while" THEN IterateSteps(LoopTest(i), funs, re)
    ELSE IF i.pc = "for"
    THEN IterateSteps(
           IF i.k[1] <= n_states
           THEN MinObjectiveRun(ForState(i),
                  Attempts(1, [success |-> TRUE, fun |-> funs[i.k[1]],
                               x |-> XAt(funs[i.k[1]])]))
           ELSE ForState(i), funs, re)
    ELSE IF i.pc = "update" THEN IterateSteps(Update(i), funs, re)
    ELSE IF i.pc = "derive" THEN Derive(i, re)
    ELSE i

IterateRun(i, xi, lower, funs, re) ==
    IterateSteps(IterateEnter(i, xi, lower), funs, re)

\* The solver's answers in the calls find_ξ makes; find_ξ reads only 'RE'.
FindAnswers == { [s \in 1..n_states |-> IF s = 2 THEN a ELSE 0] : a \in 0..1 }

MoreSteps_OffByOne(i, max_iter) == i <= max_iter

\* Line 231, for i in range(max_iter): whether step i is taken.
MoreSteps(i, max_iter) == i < max_iter

\* find_ξ, lines 221-231: the reference call iterate(100, lower), of which ia
\* is the solver afterwards, min_RE, count, and the test of range(max_iter).
FindEnter(x_min_RE, lower, max_iter, ia) ==
    IF ia.pc = "raised"
    THEN [pc |-> "raised", calls |-> 1, i |-> <<>>]
    ELSE [pc |-> IF MoreSteps(0, max_iter) THEN "loop" ELSE "exit",
          x_min_RE |-> x_min_RE, lower |-> lower, max_iter |-> max_iter,
          min_RE |-> ia.result[1].RE, count |-> 0, i |-> <<0>>,
          xi |-> <<>>, lower_bound |-> <<>>, upper_bound |-> <<>>,
          RE |-> <<>>, broke |-> FALSE, diag |-> FALSE, calls |-> 1,
          tried |-> <<>>]

\* Lines 233-239: the ξ of this step and the bounds it starts from.
StepXi(f) == IF f.i[1] = 0 THEN XiStart ELSE f.xi[1]

StepLower(f) == IF f.i[1] = 0 THEN 0 ELSE f.lower_bound[1]

StepUpper(f) == IF f.i[1] = 0 THEN XiRef ELSE f.upper_bound[1]

Bisect_OldBracket(lower_bound, upper_bound, xi, errNum) ==
    IF errNum < 0
    THEN [lower_bound |-> lower_bound, upper_bound |-> xi,
          xi |-> Mid(lower_bound, upper_bound)]
    ELSE [lower_bound |-> xi, upper_bound |-> upper_bound,
          xi |-> Mid(lower_bound, upper_bound)]

Bisect_Swapped(lower_bound, upper_bound, xi, errNum) ==
    IF errNum < 0
    THEN [lower_bound |-> xi, upper_bound |-> upper_bound,
          xi |-> Mid(xi, upper_bound)]
    ELSE [lower_bound |-> lower_bound, upper_bound |-> xi,
          xi |-> Mid(lower_bound, xi)]

\* Lines 247-252: the bounds and the next ξ after a step that did not converge.
Bisect(lower_bound, upper_bound, xi, errNum) ==
    IF errNum < 0
    THEN [lower_bound |-> lower_bound, upper_bound |-> xi,
          xi |-> Mid(lower_bound, xi)]
    ELSE [lower_bound |-> xi, upper_bound |-> upper_bound,
          xi |-> Mid(xi, upper_bound)]

\* Lines 232-256: one step of the for loop, after its call iterate(ξ, lower)
\* has left the solver as ia.  calls counts the calls of iterate and tried is
\* the ξ of the last one.
FindBody(f, ia) ==
    IF ia.pc = "raised"
    THEN [pc |-> "raised", calls |-> f.calls + 1, i |-> f.i]
    ELSE LET xi == StepXi(f)
             RE == ia.result[1].RE
             errNum == ErrNum(RE, f.min_RE, f.x_min_RE)
             b == Bisect(StepLower(f), StepUpper(f), xi, errNum)
             g == [f EXCEPT !.RE = <<RE>>, !.calls = f.calls + 1,
                            !.tried = <<xi>>]
         IN IF Within(RE, f.min_RE, f.x_min_RE)
            THEN [g EXCEPT !.xi = <<xi>>,
                           !.lower_bound = <<StepLower(f)>>,
                           !.upper_bound = <<StepUpper(f)>>,
                           !.broke = TRUE, !.pc = "exit"]
            ELSE [g EXCEPT !.xi = <<b.xi>>,
                           !.lower_bound = <<b.lower_bound>>,
                           !.upper_bound = <<b.upper_bound>>,
                           !.count = f.count + 1,
                           !.diag = (f.count + 1 = f.max_iter),
                           !.i = <<f.i[1] + 1>>,
                           !.pc = IF MoreSteps(f.i[1] + 1, f.max_iter)
                                  THEN "loop" ELSE "exit"]

\* Line 258: return ξ; ξ is not bound when the loop had no step.
FindReturn(f) ==
    IF f.xi = <<>>
    THEN [pc |-> "raised", calls |-> f.calls, i |-> f.i]
    ELSE [f EXCEPT !.pc = "returned"]

\* find_ξ, line 221: the call binds the arguments.
FindArgs(x_min_RE, lower, max_iter) ==
    [pc |-> "ref", x_min_RE |-> x_min_RE, lower |-> lower,
     max_iter |-> max_iter, calls |-> 0, i |-> <<>>]

\* The specification SpecFind: the caller sets g and calls iterate, then
\* calls find_ξ, any number of times; the body of a call of iterate is one
\* step.
IterateBody ==
    /\ inst.pc = "while"
    /\ \E funs \in FindAnswers, re \in REVals :
         inst' = IterateSteps(inst, funs, re)
    /\ UNCHANGED Rest

FindCall ==
    /\ Finished(inst)
    /\ FindFinished(fx)
    /\ \E x \in XTargets, lower \in BOOLEAN, max_iter \in IterArgs :
         fx' = FindArgs(x, lower, max_iter)
    /\ UNCHANGED <<inst, inst2, env, data>>

FindReference ==
    /\ fx.pc = "ref"
    /\ \E funs \in FindAnswers, re \in REVals :
         inst' = IterateRun(inst, XiRef, fx.lower, funs, re)
    /\ fx' = FindEnter(fx.x_min_RE, fx.lower, fx.max_iter, inst')
    /\ UNCHANGED <<inst2, env, data>>

FindStep ==
    /\ fx.pc = "loop"
    /\ \E funs \in FindAnswers, re \in REVals :
         inst' = IterateRun(inst, StepXi(fx), fx.lower, funs, re)
    /\ fx' = FindBody(fx, inst')
    /\ UNCHANGED <<inst2, env, data>>

FindExit ==
    /\ fx.pc = "exit"
    /\ fx' = FindReturn(fx)
    /\ UNCHANGED <<inst, inst2, env, data>>

NextFind ==
    \/ SetG
    \/ IterateCall
    \/ IterateBody
    \/ FindCall
    \/ FindReference
    \/ FindStep
    \/ FindExit

SpecFind == Init /\ [][NextFind]_vars

\* ------------------------------------------------- find_ξ, monotone RE
\* The specification SpecFindMono: one call find_ξ(0.5, lower=True) on a
\* solver whose RE is a non-increasing function of ξ, and a call of iterate
\* at the ξ it returned.  env.seen holds the pairs (ξ, RE) answered so far and
\* env.rerun the RE of the call that follows find_ξ.
Consistent(seen, xi, re) ==
    \A p \in seen : /\ xi <= p.xi => re >= p.RE
                    /\ xi >= p.xi => re <= p.RE

HalfTarget == [num |-> 1, den |-> 2]

MonoCall ==
    /\ fx = NoFind
    /\ Finished(inst)
    /\ \E max_iter \in IterArgs : fx' = FindArgs(HalfTarget, TRUE, max_iter)
    /\ env' = [seen |-> {}, rerun |-> <<>>]
    /\ UNCHANGED <<inst, inst2, data>>

MonoReference ==
    /\ fx.pc = "ref"
    /\ \E funs \in FindAnswers, re \in REVals :
         inst' = IterateRun(inst, XiRef, fx.lower, funs, re)
    /\ fx' = FindEnter(fx.x_min_RE, fx.lower, fx.max_iter, inst')
    /\ env' = IF inst'.pc = "returned"
              THEN [env EXCEPT !.seen = {[xi |-> XiRef,
                                          RE |-> inst'.result[1].RE]}]
              ELSE env
    /\ UNCHANGED <<inst2, data>>

MonoStep ==
    /\ fx.pc = "loop"
    /\ \E funs \in FindAnswers, re \in REVals :
         /\ Consistent(env.seen, StepXi(fx), re)
         /\ inst' = IterateRun(inst, StepXi(fx), fx.lower, funs, re)
         /\ env' = [env EXCEPT !.seen = @ \cup {[xi |-> StepXi(fx), RE |-> re]}]
    /\ fx' = FindBody(fx, inst')
    /\ UNCHANGED <<inst2, data>>

MonoRerun ==
    /\ fx.pc = "returned"
    /\ env.rerun = <<>>
    /\ inst.g # <<>>
    /\ \E funs \in FindAnswers, re \in REVals :
         /\ Consistent(env.seen, fx.xi[1], re)
         /\ inst' = IterateRun(inst, fx.xi[1], fx.lower, funs, re)
         /\ env' = [env EXCEPT !.rerun = <<re>>]
    /\ UNCHANGED <<inst2, fx, data>>

NextMono ==
    \/ SetG
    \/ MonoCall
    \/ MonoReference
    \/ MonoStep
    \/ FindExit
    \/ MonoRerun

SpecFindMono == Init /\ [][NextMono]_vars

\* ------------------------------------------------ two solvers, one call
\* The specification SpecDet: inst is a solver fresh from the constructor,
\* inst2 one on which an earlier call has run; both have the same data, g and
\* tolerance and make the same call iterate(ξ, lower).  The per-state solver
\* and the derivations are functions of what they read: asked the same, they
\* answer the same.  env.stale holds what the earlier call left on inst2.
SolveQuery(i) == [v |-> i.v, xi |-> i.xi, lower |-> i.lower, k |-> i.k]

DeriveQuery(i) == [v |-> i.v, mu |-> i.mu, lambda_1 |-> i.lambda_1,
                   lambda_2 |-> i.lambda_2, xi |-> i.xi, lower |-> i.lower]

\* One step of iterate on i, whichever is next; r answers a solve and re the
\* derivations.
IterateStep(i, r, re) ==
    IF i.pc = "while" THEN LoopTest(i)
    ELSE IF i.pc = "for"
    THEN IF i.k[1] <= n_states
         THEN MinObjectiveRun(ForState(i), Attempts(r.n, r.last))
         ELSE ForState(i)
    ELSE IF i.pc = "update" THEN Update(i)
    ELSE IF i.pc = "derive" THEN Derive(i, re)
    ELSE i

CanStep(i) == /\ ~Finished(i)
              /\ i.pc = "update" => i.count[1] < MaxCount

\* What the solver answered in the earlier call: it leaves a v that is not 0.
StaleAnswers == [s \in 1..n_states |-> IF s = 2 THEN 1 ELSE 0]

DetHistory ==
    /\ env = <<>>
    /\ inst2.pc = "idle"
    /\ \E xi \in XiArgs, lower \in BOOLEAN :
         inst2' = IterateRun(inst2, xi, lower, StaleAnswers, MaxRE)
    /\ UNCHANGED <<inst, fx, env, data>>

DetCall ==
    /\ env = <<>>
    /\ \E xi \in XiArgs, lower \in BOOLEAN :
         /\ inst' = IterateEnter(inst, xi, lower)
         /\ inst2' = IterateEnter(inst2, xi, lower)
    /\ env' = [stale |-> Attrs(inst2)]
    /\ UNCHANGED <<fx, data>>

\* The runs of the solve of state k in this specification: state 1 succeeds
\* at once at 0 or 1, state 2 succeeds at once at any value, state 3 succeeds
\* at once or fails with every method, at 0.
DetRuns(k) ==
    { r \in SolveRuns :
        IF k = 1 THEN r.n = 1 /\ r.last.fun <= 1
        ELSE IF k = 2 THEN r.n = 1
        ELSE r.last.fun = 0 /\ (r.n = 1 \/ ~r.last.success) }

\* What may answer the next step of i: the runs of a solve, the values of the
\* derivations, one stand-in where the step asks nothing.
RunsFor(i) ==
    IF i.pc = "for" /\ i.k[1] <= n_states
    THEN DetRuns(i.k[1])
    ELSE {[n |-> 1, last |-> [success |-> TRUE, fun |-> 0, x |-> XAt(0)]]}

REsFor(i) == IF i.pc = "derive" THEN REVals ELSE {MaxRE}

DetStep ==
    /\ env # <<>>
    /\ CanStep(inst) \/ CanStep(inst2)
    /\ \E r1 \in RunsFor(inst), re1 \in REsFor(inst) :
         \E r2 \in IF /\ inst.pc = "for"
                      /\ inst2.pc = "for"
                      /\ SolveQuery(inst) = SolveQuery(inst2)
                   THEN {r1} ELSE RunsFor(inst2),
            re2 \in IF /\ inst.pc = "derive"
                       /\ inst2.pc = "derive"
                       /\ DeriveQuery(inst) = DeriveQuery(inst2)
                    THEN {re1} ELSE REsFor(inst2) :
           /\ inst' = IF CanStep(inst) THEN IterateStep(inst, r1, re1)
                      ELSE inst
           /\ inst2' = IF CanStep(inst2) THEN IterateStep(inst2, r2, re2)
                       ELSE inst2
    /\ UNCHANGED <<fx, env, data>>

InitDet ==
    /\ \E tol \in TolArgs :
         /\ inst = [NewInstance(tol) EXCEPT !.g = <<"g">>]
         /\ inst2 = [NewInstance(tol) EXCEPT !.g = <<"g">>]
    /\ fx = NoFind
    /\ env = <<>>
    /\ data = <<>>

NextDet ==
    \/ DetHistory
    \/ DetCall
    \/ DetStep

SpecDet == InitDet /\ [][NextDet]_vars

\* ---------------------------------------------------------- the constructor
\* The specification SpecInit: __init__ step by step.  data holds the
\* constructor's locals; the series 'd.p' of the file is any series of 1 to
\* MaxT values in 0..MaxVal.
Series == UNION { [1..n -> 0..MaxVal] : n \in 1..MaxT }

RECURSIVE Insert(_, _)
Insert(x, s) ==
    IF s = <<>> THEN <<x>>
    ELSE IF x <= Head(s) THEN <<x>> \o s
    ELSE <<Head(s)>> \o Insert(x, Tail(s))

RECURSIVE Sorted(_)
Sorted(s) == IF s = <<>> THEN <<>> ELSE Insert(Head(s), Sorted(Tail(s)))

\* Lines 36-37: np.quantile(a, k/3), by linear interpolation between the
\* order statistics around position k*(n-1)/3; the value is returned times 3.
Quantile3(a, k) ==
    LET srt == Sorted(a)
        h3 == k * (Len(a) - 1)
        f == h3 \div 3
        r == h3 % 3
    IN IF r = 0 THEN 3 * srt[f + 1]
       ELSE 3 * srt[f + 1] + r * (srt[f + 2] - srt[f + 1])

IndicatorRow_NoLower(x, t1, t2) == <<3 * x <= t1, 3 * x <= t2, 3 * x > t2>>

\* Line 40: the three columns for one value x; t1 and t2 are the terciles
\* times 3.
IndicatorRow(x, t1, t2) ==
    <<3 * x <= t1, 3 * x <= t2 /\ 3 * x > t1, 3 * x > t2>>

\* Line 40: the indicator of the whole series, one row per value.
Indicator(pd_lag, t1, t2) ==
    [t \in 1..Len(pd_lag) |-> IndicatorRow(pd_lag[t], t1, t2)]

\* Lines 43 and 47: m[1:] and m[:-1].
DropFirst(m) == SubSeq(m, 2, Len(m))

DropLast(m) == SubSeq(m, 1, Len(m) - 1)

\* Lines 33-34.
LoadData ==
    /\ data = <<>>
    /\ \E a \in Series : data' = [pc |-> "loaded", pd_lag |-> a]
    /\ UNCHANGED <<inst, inst2, fx, env>>

\* Lines 36-37.
Terciles ==
    /\ data # <<>>
    /\ data.pc = "loaded"
    /\ data' = [pc |-> "terciles", pd_lag |-> data.pd_lag,
                tercile_1 |-> Quantile3(data.pd_lag, 1),
                tercile_2 |-> Quantile3(data.pd_lag, 2)]
    /\ UNCHANGED <<inst, inst2, fx, env>>

\* Line 40.
Indicators ==
    /\ data # <<>>
    /\ data.pc = "terciles"
    /\ data' = [pc |-> "indicator", pd_lag |-> data.pd_lag,
                tercile_1 |-> data.tercile_1, tercile_2 |-> data.tercile_2,
                indicator |-> Indicator(data.pd_lag, data.tercile_1,
                                        data.tercile_2)]
    /\ UNCHANGED <<inst, inst2, fx, env>>

\* Lines 43-65: the two matrices the solver keeps, and the placeholders.
Slices ==
    /\ data # <<>>
    /\ data.pc = "indicator"
    /\ data' = [pc |-> "done", pd_lag |-> data.pd_lag,
                tercile_1 |-> data.tercile_1, tercile_2 |-> data.tercile_2,
                indicator |-> data.indicator,
                pd_indicator |-> DropFirst(data.indicator),
                pd_lag_indicator |-> DropLast(data.indicator)]
    /\ \E tol \in TolArgs : inst' = NewInstance(tol)
    /\ UNCHANGED <<inst2, fx, env>>

InitCtor ==
    /\ inst = <<>>
    /\ inst2 = <<>>
    /\ fx = NoFind
    /\ env = <<>>
    /\ data = <<>>

NextInit ==
    \/ LoadData
    \/ Terciles
    \/ Indicators
    \/ Slices

SpecInit == InitCtor /\ [][NextInit]_vars

\* ------------------------------------------------------------- SpecSolver
\* _min_objective step by step, inside the first pass of an iterate call.
SolverForState ==
    /\ inst.pc = "for"
    /\ inst' = ForState(inst)
    /\ UNCHANGED Rest

SolverMinimize ==
    /\ inst.pc = "minimize"
    /\ \E out \in Outcomes : inst' = Minimize(inst, out)
    /\ UNCHANGED Rest

SolverDone ==
    /\ inst.pc = "min_done"
    /\ inst' = MinObjectiveReturn(inst)
    /\ UNCHANGED Rest

InitSolver ==
    /\ \E xi \in XiArgs, lower \in BOOLEAN :
         inst = LoopTest(IterateEnter(
                  [NewInstance(TolDefault) EXCEPT !.g = <<"g">>], xi, lower))
    /\ inst2 = NewInstance(TolDefault)
    /\ fx = NoFind
    /\ env = <<>>
    /\ data = <<>>

NextSolver ==
    \/ SolverForState
    \/ SolverMinimize
    \/ SolverDone

SpecSolver == InitSolver /\ [][NextSolver]_vars

\* ------------------------------------------------------------------ claims
\* C1: iterate called while g is None raises before anything else: no result
\* mapping, no per-state solve, and ξ, the mode flag, v, μ and the active state
\* stay as they were; so find_ξ with g unset fails on its reference call
\* without a bisection step.
C1_Step ==
    (inst.g = <<>> /\ (IterateCall \/ FindReference \/ FindStep))
    => /\ inst'.pc = "raised"
       /\ Attrs(inst') = Attrs(inst)
       /\ inst'.result = <<>>
       /\ inst'.count = <<>>
       /\ inst'.v_mu = <<>>
       /\ FindReference => /\ fx'.pc = "raised"
                           /\ fx'.i = <<>>
                           /\ fx'.calls = 1

C1_ConfigurationError == [][C1_Step]_vars

C1_Witness ==
    /\ inst.pc = "raised"
    /\ inst.g = <<>>
    /\ inst.v # <<>>
    /\ inst.xi # <<>>
    /\ fx.pc = "raised"
    /\ fx.calls = 1

C7_Inv ==
    /\ fx.pc \in {"loop", "exit", "returned"}
       => /\ fx.calls <= 1 + fx.max_iter
          /\ fx.i[1] <= fx.max_iter
          /\ fx.calls = 1 + fx.i[1] + (IF fx.broke THEN 1 ELSE 0)
    /\ fx.pc = "loop" => fx.i[1] < fx.max_iter
    /\ (fx.pc \in {"exit", "returned"} /\ fx.max_iter >= 1)
       => /\ fx.broke \/ fx.i[1] = fx.max_iter
          /\ fx.broke <=> Within(fx.RE[1], fx.min_RE, fx.x_min_RE)
          /\ fx.broke => fx.xi = fx.tried

C7_Step ==
    /\ (fx.pc = "ref" /\ fx' # fx /\ inst'.pc = "returned")
       => /\ inst'.xi = <<XiRef>>
          /\ fx'.calls = 1
          /\ fx'.min_RE = inst'.result[1].RE
    /\ (fx.pc = "loop" /\ fx' # fx /\ inst'.pc = "returned")
       => /\ fx.i[1] = 0 => inst'.xi = <<XiStart>>
          /\ fx'.tried = inst'.xi
          /\ fx'.broke <=> Within(inst'.result[1].RE, fx.min_RE, fx.x_min_RE)
          /\ IF fx'.broke
             THEN fx'.pc = "exit" /\ fx'.xi = inst'.xi
             ELSE fx'.i[1] = fx.i[1] + 1
    /\ (fx.pc = "exit" /\ fx' # fx /\ fx.max_iter >= 1)
       => fx'.pc = "returned" /\ fx'.xi = fx.xi

C7_Terminates == []C7_Inv /\ [][C7_Step]_vars

C7_Witness ==
    /\ fx.pc = "returned"
    /\ fx.broke
    /\ fx.calls >= 4
    /\ fx.calls < 1 + fx.max_iter

\* C9 as claimed: at every bisection step 0 <= lower_bound < ξ < upper_bound
\* <= 100, so that iterate is never called with ξ <= 0 or ξ >= 100.
C9_StrictBracket ==
    fx.pc = "loop"
    => /\ 0 <= StepLower(fx)
       /\ StepLower(fx) < StepXi(fx)
       /\ StepXi(fx) < StepUpper(fx)
       /\ StepUpper(fx) <= XiRef

\* C9 as amended: at every bisection step 0 <= lower_bound <= ξ <= upper_bound
\* <= 100 (a midpoint that is not representable rounds onto a bound); a step
\* with error < 0 only moves upper_bound down to the current ξ, any other
\* step that does not converge only moves lower_bound up to the current ξ,
\* and the next ξ is the floating-point midpoint of the updated bracket.
C9_Inv ==
    fx.pc = "loop"
    => /\ 0 <= StepLower(fx)
       /\ StepLower(fx) <= StepXi(fx)
       /\ StepXi(fx) <= StepUpper(fx)
       /\ StepUpper(fx) <= XiRef

C9_Step ==
    (fx.pc = "loop" /\ fx' # fx /\ inst'.pc = "returned" /\ ~fx'.broke)
    => LET xi == StepXi(fx)
           negative == fx'.RE[1] * fx.x_min_RE.den
                         < fx.x_min_RE.num * fx.min_RE
       IN /\ negative => /\ fx'.upper_bound = <<xi>>
                         /\ fx'.lower_bound = <<StepLower(fx)>>
          /\ ~negative => /\ fx'.lower_bound = <<xi>>
                          /\ fx'.upper_bound = <<StepUpper(fx)>>
          /\ fx'.xi[1] = Mid(fx'.lower_bound[1], fx'.upper_bound[1])

C9_Bracket == []C9_Inv /\ [][C9_Step]_vars

C9_Witness ==
    /\ fx.pc = "loop"
    /\ fx.i[1] >= 1
    /\ StepXi(fx) \in {StepLower(fx), StepUpper(fx)}
    /\ StepLower(fx) < StepUpper(fx)

C6_Inv ==
    inst.pc \in {"minimize", "min_done"}
    => /\ Len(inst.attempts) <= 3
       /\ \A j \in 1..Len(inst.attempts) :
            /\ inst.attempts[j].method = <<"L-BFGS-B", "BFGS", "CG">>[j]
            /\ inst.attempts[j].x0 = [c \in 1..(n_f + 1) |-> 1]
       /\ inst.pc = "minimize"
          => /\ inst.method = <<Len(inst.attempts) + 1>>
             /\ inst.attempts # <<>> => ~inst.model[1].success
       /\ inst.pc = "min_done"
          => /\ inst.attempts # <<>>
             /\ inst.model[1].success \/ Len(inst.attempts) = 3

C6_Step ==
    /\ SolverMinimize
       => (inst'.pc = "min_done"
             <=> (inst'.model[1].success \/ Len(inst'.attempts) = 3))
    /\ SolverDone
       => LET m == inst.model[1]
              s == inst.state[1]
          IN /\ inst'.v_mu[s] = 0 - m.fun
             /\ \A c \in 1..n_f : inst'.lambda_1[(s - 1) * n_f + c] = m.x[c]
             /\ inst'.lambda_2[s] = m.x[n_f + 1]
             /\ inst'.warned <=> ~m.success
             /\ inst'.pc = "for"
             /\ inst'.k = <<s + 1>>

C6_MethodOrder == []C6_Inv /\ [][C6_Step]_vars

C6_Witness ==
    /\ inst.pc = "for"
    /\ inst.warned
    /\ inst.k = <<3>>
    /\ inst.v_mu[2] # 0

\* C10 as claimed: iterate reaches the derivations only after at least one
\* full outer iteration, the last of which changed v by at most the tolerance.
C10_AtLeastOnePass ==
    inst.pc = "derive"
    => /\ inst.count[1] >= 1
       /\ inst.v_mu # <<>>
       /\ inst.error[1] <= inst.tol

C10_Witness ==
    /\ inst.pc = "raised"
    /\ inst.g # <<>>
    /\ inst.tol >= ErrInit

\* C3 as claimed: with RE non-increasing in ξ and min_RE the RE at ξ = 100,
\* find_ξ(0.5, lower=True) returns a ξ < 100 at which iterate yields
\* RE/min_RE within the tolerance of 0.5.
C3_ReachesHalf ==
    (fx.pc = "returned" /\ env.rerun # <<>>)
    => /\ fx.xi[1] < XiRef
       /\ Within(env.rerun[1], fx.min_RE, fx.x_min_RE)

\* C3 as amended: with RE non-increasing in ξ and min_RE > 0 the RE at
\* ξ = 100, RE/min_RE >= 1 at every ξ <= 100, so find_ξ(0.5, lower=True)
\* never converges: every step moves lower_bound up to the ξ it tried and
\* leaves upper_bound at 100, all max_iter steps are used, the diagnostic is
\* emitted, and the returned ξ lies in (1, 100] and has RE/min_RE >= 1.
C3_NeverReachesHalf ==
    /\ fx.pc \in {"loop", "exit", "returned"}
       => /\ ~fx.broke
          /\ fx.i[1] >= 1 => /\ fx.lower_bound = fx.tried
                             /\ fx.upper_bound = <<XiRef>>
                             /\ fx.RE[1] >= fx.min_RE
    /\ fx.pc = "returned"
       => /\ fx.diag
          /\ fx.calls = 1 + fx.max_iter
          /\ XiStart < fx.xi[1]
          /\ fx.xi[1] <= XiRef
          /\ env.rerun # <<>>
             => /\ env.rerun[1] >= fx.min_RE
                /\ ~Within(env.rerun[1], fx.min_RE, fx.x_min_RE)

C3_Witness ==
    /\ fx.pc = "returned"
    /\ fx.max_iter = MaxIter
    /\ env.rerun # <<>>
    /\ env.rerun[1] = fx.min_RE

\* C5: iterate is deterministic and history-independent: with the same data,
\* g, tolerance, ξ and mode, and a solver that is a function of (v, ξ, mode,
\* state), a call returns the same mapping whatever v, μ, ξ, mode and active
\* state an earlier call left on the solver, because it restarts from v = 0
\* with zeroed increments and dual variables.
C5_HistoryIndependent ==
    env # <<>>
    => /\ inst.pc = inst2.pc
       /\ inst.result = inst2.result
       /\ inst.count = inst2.count
       /\ inst.v_mu = inst2.v_mu
       /\ inst.lambda_1 = inst2.lambda_1
       /\ inst.lambda_2 = inst2.lambda_2
       /\ (inst.pc # "while" \/ inst.count # <<0>>)
          => /\ inst.v = inst2.v
             /\ inst.xi = inst2.xi
             /\ inst.lower = inst2.lower

C5_Witness ==
    /\ env # <<>>
    /\ inst.pc = "returned"
    /\ inst2.pc = "returned"
    /\ inst.result[1].count = 2
    /\ env.stale.v # <<>>
    /\ env.stale.v # inst.result[1].v
    /\ env.stale.xi # inst.xi
    /\ env.stale.lower # inst.lower
    /\ inst2.result = inst.result

\* C8: for every input series and its terciles (tercile_1 <= tercile_2),
\* values equal to a tercile included, each row of the lag indicator and of
\* the next-period indicator has exactly one true entry, row t of the
\* next-period matrix is row t+1 of the unshifted indicator, and both
\* matrices have one row fewer than the input.
C8_Indicators ==
    (data # <<>> /\ data.pc = "done")
    => /\ data.tercile_1 <= data.tercile_2
       /\ Len(data.pd_indicator) = Len(data.pd_lag) - 1
       /\ Len(data.pd_lag_indicator) = Len(data.pd_lag) - 1
       /\ \A t \in 1..(Len(data.pd_lag) - 1) :
            /\ Cardinality({c \in 1..n_states : data.pd_indicator[t][c]}) = 1
            /\ Cardinality({c \in 1..n_states :
                              data.pd_lag_indicator[t][c]}) = 1
            /\ data.pd_indicator[t] = data.indicator[t + 1]
            /\ data.pd_lag_indicator[t] = data.indicator[t]
            /\ data.pd_indicator[t]
                 = IndicatorRow(data.pd_lag[t + 1], data.tercile_1,
                                data.tercile_2)

C8_Witness ==
    /\ data # <<>>
    /\ data.pc = "done"
    /\ Len(data.pd_lag) = MaxT
    /\ data.tercile_1 < data.tercile_2
    /\ 3 * data.pd_lag[1] = data.tercile_1
    /\ 3 * data.pd_lag[2] = data.tercile_2
    /\ data.pd_lag_indicator[1] # data.pd_indicator[1]

====
